---- MODULE Spec2Model ----
(***************************************************************************)
(* Model of the SDAPI script-debugger client (src/src/sdapi.ts) and of its *)
(* fault table (fault.ts).  A client instance owns one axios instance      *)
(* (`http`).  Every method builds one request and hands it to the          *)
(* transport; the transport later answers each outstanding request, in any *)
(* order, with a response (2xx) or with an AxiosError, and the promise     *)
(* chain of the method (response interceptor, then the method's own        *)
(* `.then(res => res.data)` when it has one) settles the caller's promise. *)
(***************************************************************************)
EXTENDS Integers, Sequences, FiniteSets, TLC

VARIABLES
    config,      \* the Config object handed to the constructor
    http,        \* this.http: the defaults of the axios instance
    invoked,     \* number of method invocations made so far
    pending,     \* call id -> the request in flight and the promise chain
    dispatched,  \* call id -> number of requests handed to the transport
    settled,     \* call id -> number of times the caller's promise settled
    delivered,   \* the last settlement handed to a caller
    program      \* the methods the caller's program uses in this run

vars ==
    <<config, http, invoked, pending, dispatched, settled, delivered, program>>

(***************************************************************************)
(* Bounds                                                                  *)
(***************************************************************************)
MaxCalls == 2

CallIds == 1..MaxCalls

(***************************************************************************)
(* JavaScript values.  Every value is tagged with its type so that         *)
(* property access and optional chaining can be computed as the language   *)
(* computes them.                                                          *)
(***************************************************************************)
Undef == [t |-> "undefined"]
Str(s) == [t |-> "string", v |-> s]
Num(n) == [t |-> "number", v |-> n]
Instance(c, p) == [t |-> "object", class |-> c, props |-> p]
Obj(p) == Instance("Object", p)

\* o?.k : undefined when o is undefined; a primitive string or number has
\* none of the keys read here; an object yields its own property or undefined.
Get(o, k) ==
    IF o.t = "object" /\ k \in DOMAIN o.props THEN o.props[k] ELSE Undef

\* An optional argument of a call: <<>> when the caller left it out.
Undefined == <<>>
Some(v) == <<v>>

(***************************************************************************)
(* Template literals: `${n}` renders a number in decimal.                  *)
(***************************************************************************)
Digit(d) ==
    CASE d = 0 -> "0" [] d = 1 -> "1" [] d = 2 -> "2" [] d = 3 -> "3"
      [] d = 4 -> "4" [] d = 5 -> "5" [] d = 6 -> "6" [] d = 7 -> "7"
      [] d = 8 -> "8" [] d = 9 -> "9"

RECURSIVE NatToString(_)
NatToString(n) ==
    IF n < 10 THEN Digit(n) ELSE NatToString(n \div 10) \o Digit(n % 10)

NumberToString(n) == IF n < 0 THEN "-" \o NatToString(-n) ELSE NatToString(n)

\* Property keys are strings: Faults[x] converts x to a string.
JSToString(v) ==
    CASE v.t = "string" -> v.v
      [] v.t = "number" -> NumberToString(v.v)
      [] v.t = "undefined" -> "undefined"
      [] OTHER -> "[object Object]"

\* !v is true for undefined and for the empty string; functions and objects
\* are truthy.
ToBoolean(v) ==
    CASE v.t = "undefined" -> FALSE
      [] v.t = "string" -> v.v # ""
      [] v.t = "number" -> v.v # 0
      [] OTHER -> TRUE

(***************************************************************************)
(* fault.ts: eight classes extending Error and the table `Faults`, an      *)
(* object literal whose keys are the class names.                          *)
(***************************************************************************)
Class(name) == [t |-> "function", name |-> name, construct |-> "Error"]

\* The table with one key bound to the wrong class.
FaultsMisbound ==
    [ NotAuthorizedException |-> Class("NotAuthorizedException"),
      ClientIdRequiredException |-> Class("NotAuthorizedException"),
      DebuggerDisabledException |-> Class("DebuggerDisabledException"),
      InvalidScriptPathException |-> Class("InvalidScriptPathException"),
      InvalidScriptFileException |-> Class("InvalidScriptFileException"),
      BreakpointNotFoundException |-> Class("BreakpointNotFoundException"),
      ScriptThreadNotFoundException |-> Class("ScriptThreadNotFoundException"),
      InvalidFrameIndexException |-> Class("InvalidFrameIndexException") ]

Faults ==
    [ NotAuthorizedException |-> Class("NotAuthorizedException"),
      ClientIdRequiredException |-> Class("ClientIdRequiredException"),
      DebuggerDisabledException |-> Class("DebuggerDisabledException"),
      InvalidScriptPathException |-> Class("InvalidScriptPathException"),
      InvalidScriptFileException |-> Class("InvalidScriptFileException"),
      BreakpointNotFoundException |-> Class("BreakpointNotFoundException"),
      ScriptThreadNotFoundException |-> Class("ScriptThreadNotFoundException"),
      InvalidFrameIndexException |-> Class("InvalidFrameIndexException") ]

\* `Faults` is an ordinary object, so a key it does not own is looked up on
\* Object.prototype: `constructor` is the function Object, the prototype's
\* methods are functions that cannot be called with `new`, and `__proto__`
\* is the prototype object itself.
ObjectPrototypeMethods ==
    { "toString", "toLocaleString", "valueOf", "hasOwnProperty",
      "isPrototypeOf", "propertyIsEnumerable" }

ObjectPrototype(key) ==
    CASE key = "constructor" ->
            [t |-> "function", name |-> "Object", construct |-> "Object"]
      [] key \in ObjectPrototypeMethods ->
            [t |-> "function", name |-> key, construct |-> "none"]
      [] key = "__proto__" ->
            Instance("Object.prototype", <<>>)
      [] OTHER -> Undef

\* Faults[key]
FaultsLookup(key) ==
    IF key \in DOMAIN Faults THEN Faults[key] ELSE ObjectPrototype(key)

\* new F(arg).  A class of fault.ts runs the Error constructor, which sets
\* `message` to ToString(arg) unless arg is undefined; `new Object(arg)`
\* boxes a string and yields an empty object for undefined; anything else is
\* not a constructor and the expression throws a TypeError.
New(F, arg) ==
    CASE F.t = "function" /\ F.construct = "Error" ->
            [threw |-> FALSE,
             value |-> Instance(F.name,
                          IF arg.t = "undefined" THEN <<>>
                          ELSE [message |-> Str(JSToString(arg))])]
      [] F.t = "function" /\ F.construct = "Object" ->
            [threw |-> FALSE,
             value |-> IF arg.t = "string"
                       THEN Instance("String", [value |-> arg])
                       ELSE IF arg.t = "object" THEN arg ELSE Obj(<<>>)]
      [] OTHER ->
            [threw |-> TRUE,
             value |-> Instance("TypeError",
                          [message |-> Str("Fault is not a constructor")])]

\* Promise.reject(v), and a handler that throws v, both leave the promise
\* rejected with v.
Reject(v) == [settle |-> "rejected", value |-> v]
Resolve(v) == [settle |-> "resolved", value |-> v]

\* error.response?.data?.fault
FaultOf(error) == Get(Get(Get(error, "response"), "data"), "fault")

axiosErrorToFault(error) ==
    LET Fault == FaultsLookup(JSToString(Get(FaultOf(error), "type")))
    IN  IF ~ToBoolean(Fault)
        THEN Reject(error)
        ELSE Reject(New(Fault, Get(FaultOf(error), "message")).value)

(***************************************************************************)
(* sdapi.ts: the constructor.  axios.create stores the defaults of the     *)
(* instance; the response interceptor is (res => res, axiosErrorToFault).  *)
(***************************************************************************)
\* The constructor with the client identifier put in the wrong header.
constructorWrongHeader(cfg) ==
    [ baseURL |-> "https://" \o cfg.hostname \o "/s/-/dw/debugger/v2_0",
      auth |-> [username |-> cfg.username, password |-> cfg.password],
      headers |-> ("x-dw-client-id" :> cfg.username) ]

constructor(cfg) ==
    [ baseURL |-> "https://" \o cfg.hostname \o "/s/-/dw/debugger/v2_0",
      auth |-> [username |-> cfg.username, password |-> cfg.password],
      headers |-> ("x-dw-client-id" :> cfg.clientId) ]

\* The fulfilled half of the interceptor: res => res.
interceptorFulfilled(res) == Resolve(res)

\* The rejected half of the interceptor.
interceptorRejected(error) == axiosErrorToFault(error)

\* .then(res => res): the payload is not unwrapped.
thenDataKeepsEnvelope(p) == p

\* promise.then(res => res.data): a rejection passes through.
thenData(p) ==
    IF p.settle = "resolved" THEN Resolve(Get(p.value, "data")) ELSE p

(***************************************************************************)
(* The axios verbs used by the methods.  A request config has a `params`   *)
(* or a `data` key only when the call passes one.                          *)
(***************************************************************************)
httpGet(url) == [method |-> "get", url |-> url]
httpGetParams(url, params) == [method |-> "get", url |-> url, params |-> params]
httpPost(url) == [method |-> "post", url |-> url]
httpPostData(url, data) == [method |-> "post", url |-> url, data |-> data]
httpDelete(url) == [method |-> "delete", url |-> url]

\* What a method returns: the request it dispatched and whether it chains
\* .then(res => res.data) on the promise of the request.
Raw(request) == [request |-> request, then |-> "none"]
Data(request) == [request |-> request, then |-> "res.data"]

\* The default replaces the caller's value.
DefaultIgnoresArgument(arg, d) == d

\* A default parameter value applies when the argument is undefined.
Default(arg, d) == IF arg = Undefined THEN d ELSE arg[1]

DefaultStart == 0
DefaultCount == 200

(***************************************************************************)
(* The bodies of the methods of SDAPI.                                     *)
(***************************************************************************)
createClientBody == Raw(httpPost("/client"))

deleteClientBody == Raw(httpDelete("/client"))

getBreakpointsBody == Data(httpGet("/breakpoints"))

createBreakpointsBody(breakpoints) ==
    Data(httpPostData("/breakpoints", breakpoints))

removeBreakpointsBody == Raw(httpDelete("/breakpoints"))

getBreakpointBody(id) == Data(httpGet("/breakpoints/" \o NumberToString(id)))

\* removeBreakpoint issued with the verb of getBreakpoint.
removeBreakpointBodyGet(id) ==
    Raw(httpGet("/breakpoints/" \o NumberToString(id)))

removeBreakpointBody(id) ==
    Raw(httpDelete("/breakpoints/" \o NumberToString(id)))

getScriptThreadsBody == Data(httpGet("/threads"))

resetScriptThreadsBody == Raw(httpPost("/threads/reset"))

getScriptThreadBody(id) == Data(httpGet("/threads/" \o NumberToString(id)))

evaluateExpressionBody(threadId, frameIndex, expr) ==
    Data(httpGetParams("/threads/" \o NumberToString(threadId) \o "/frames/"
                          \o NumberToString(frameIndex) \o "/eval",
                       [expr |-> expr]))

\* object_path is always sent, empty when the caller gave none.
getObjectMembersBodyAlwaysPath(threadId, frameIndex, objectPath, start, count) ==
    Data(httpGetParams("/threads/" \o NumberToString(threadId)
                         \o "/frames/" \o NumberToString(frameIndex)
                         \o "/members",
                       [start |-> Default(start, DefaultStart),
                        count |-> Default(count, DefaultCount),
                        object_path |-> Default(objectPath, "")]))

getObjectMembersBody(threadId, frameIndex, objectPath, start, count) ==
    LET base == [start |-> Default(start, DefaultStart),
                 count |-> Default(count, DefaultCount)]
        \* if (objectPath): undefined and the empty string are falsy
        params == IF objectPath # Undefined /\ objectPath[1] # ""
                  THEN [start |-> base.start, count |-> base.count,
                        object_path |-> objectPath[1]]
                  ELSE base
    IN  Data(httpGetParams("/threads/" \o NumberToString(threadId)
                             \o "/frames/" \o NumberToString(frameIndex)
                             \o "/members", params))

getVariablesBody(threadId, frameIndex, start, count) ==
    Data(httpGetParams("/threads/" \o NumberToString(threadId) \o "/frames/"
                          \o NumberToString(frameIndex) \o "/variables",
                       [start |-> Default(start, DefaultStart),
                        count |-> Default(count, DefaultCount)]))

step(threadId, action) ==
    Data(httpPost("/threads/" \o NumberToString(threadId) \o "/" \o action))

stepIntoBody(threadId) == step(threadId, "into")
\* stepOut with the action of stepOver.
stepOutBodyOver(threadId) == step(threadId, "over")
stepOutBody(threadId) == step(threadId, "out")
stepOverBody(threadId) == step(threadId, "over")
stepResumeBody(threadId) == step(threadId, "resume")
stepStopBody(threadId) == step(threadId, "stop")

(***************************************************************************)
(* The values callers pass and the answers the transport gives.            *)
(***************************************************************************)
mockConfig ==
    [hostname |-> "localhost", username |-> "username",
     password |-> "password", clientId |-> "TestSDAPI"]

Configs ==
    { mockConfig,
      [hostname |-> "dev01.example.net", username |-> "admin",
       password |-> "s3cret", clientId |-> "ide"] }

Ids == {1, 12}

\* (threadId, frameIndex)
Frames == { <<1, 0>>, <<12, 3>> }

Expressions == { "calculate()", "" }

ObjectPaths == { Undefined, Some(""), Some("basket.productLineItems") }

\* (start, count) as the caller passes them
Pagings ==
    { <<Undefined, Undefined>>, <<Some(10), Some(100)>>,
      <<Undefined, Some(0)>> }

breakpoint == Obj([line_number |-> Num(1), script_path |-> Str("/")])

BreakpointsValues ==
    { Obj([breakpoints |-> <<breakpoint>>]), Obj([breakpoints |-> <<>>]) }

thread == Obj([id |-> Num(1), status |-> Str("running")])

\* The body of a failed call: {_v, fault: {type, message}}.
faultResponse(type, message) ==
    Obj(("_v" :> Str("2.0")) @@
        [fault |-> Obj([type |-> Str(type), message |-> Str(message)])])

\* A response the transport accepts (status 2xx): status and body.
Responses ==
    { [status |-> 204, data |-> Str("")],
      [status |-> 200, data |-> thread],
      [status |-> 200, data |-> faultResponse("NotAuthorizedException",
                                               "Client not created.")] }

\* The response object axios resolves with.
AxiosResponse(res, request) ==
    Instance("AxiosResponse",
             [status |-> Num(res.status), data |-> res.data,
              config |-> request])

\* The error axios rejects with when the status is not 2xx.
AxiosError(status, data) ==
    Instance("AxiosError",
             [message |-> Str("Request failed with status code "
                                \o NumberToString(status)),
              response |-> Obj([status |-> Num(status), data |-> data])])

\* The error axios rejects with when no response arrived.
NetworkError == Instance("AxiosError", [message |-> Str("Network Error")])

\* The faults of the remote service, with the status and message it sends.
KnownFaultErrors ==
    { AxiosError(401, faultResponse("NotAuthorizedException",
          "You are not authorized to use the Script Debugger.")),
      AxiosError(401, faultResponse("NotAuthorizedException",
          "Client not created.")),
      AxiosError(400, faultResponse("ClientIdRequiredException",
          "You must have a client identifier in the request header.")),
      AxiosError(412, faultResponse("DebuggerDisabledException",
          "Client not created.")),
      AxiosError(400, faultResponse("InvalidScriptPathException",
          "Script Path must start with a forward slash.")),
      AxiosError(400, faultResponse("InvalidScriptFileException",
          "Script Path must be a JavaScript file.")),
      AxiosError(404, faultResponse("BreakpointNotFoundException",
          "Could not find Breakpoint for identifier 1")),
      AxiosError(404, faultResponse("ScriptThreadNotFoundException",
          "Could not find Script Thread for identifier 1")),
      AxiosError(404, faultResponse("InvalidFrameIndexException",
          "")) }

\* Discriminators the fault table does not list.
OtherTypes == { "InternalServerError", "", "constructor", "toString" }

AxiosErrors ==
    KnownFaultErrors
    \cup { AxiosError(500, faultResponse(type, "Client not created.")) :
              type \in OtherTypes }
    \cup { NetworkError,
           AxiosError(500, Str("Internal Server Error")),
           AxiosError(500, Obj("_v" :> Str("2.0"))),
           AxiosError(400, Obj([fault |->
                                  Obj([message |-> Str("Client not created.")])])),
           AxiosError(404, Obj([fault |->
                                  Obj([type |-> Str("BreakpointNotFoundException")])])) }

NoDelivery ==
    [call |-> 0, op |-> "", settle |-> "none", value |-> Undef,
     source |-> Undef]

\* The caller's program: it opens and closes the session and works on one
\* resource family.
Session == { "createClient", "deleteClient" }

Programs ==
    { Session \cup { "getBreakpoints", "createBreakpoints", "removeBreakpoints",
                     "getBreakpoint", "removeBreakpoint" },
      Session \cup { "getScriptThreads", "resetScriptThreads",
                     "getScriptThread", "evaluateExpression" },
      Session \cup { "getObjectMembers" },
      Session \cup { "getVariables" },
      Session \cup { "stepInto", "stepOut", "stepOver", "stepResume",
                     "stepStop" } }

\* A run: the configuration the client is constructed with and the program
\* that drives it.
Runs ==
    [config : {mockConfig}, program : Programs]
    \cup [config : Configs, program : {Session}]

Init ==
    /\ \E run \in Runs : config = run.config /\ program = run.program
    /\ http = constructor(config)
    /\ invoked = 0
    /\ pending = <<>>
    /\ dispatched = [i \in CallIds |-> 0]
    /\ settled = [i \in CallIds |-> 0]
    /\ delivered = NoDelivery

(***************************************************************************)
(* A method invocation: the body runs synchronously, hands one request to  *)
(* the transport and returns the promise to the caller.                    *)
(***************************************************************************)
Invoke(op, args, body) ==
    /\ invoked < MaxCalls
    /\ invoked' = invoked + 1
    /\ pending' = pending @@ (invoked + 1 :>
                     [op |-> op, args |-> args, request |-> body.request,
                      then |-> body.then])
    /\ dispatched' = [dispatched EXCEPT ![invoked + 1] = @ + 1]
    /\ UNCHANGED <<config, http, settled, delivered, program>>

createClient ==
    /\ "createClient" \in program
    /\ Invoke("createClient", <<>>, createClientBody)

deleteClient ==
    /\ "deleteClient" \in program
    /\ Invoke("deleteClient", <<>>, deleteClientBody)

getBreakpoints ==
    /\ "getBreakpoints" \in program
    /\ Invoke("getBreakpoints", <<>>, getBreakpointsBody)

createBreakpoints ==
    /\ "createBreakpoints" \in program
    /\ \E breakpoints \in BreakpointsValues :
          Invoke("createBreakpoints", <<breakpoints>>,
              createBreakpointsBody(breakpoints))

removeBreakpoints ==
    /\ "removeBreakpoints" \in program
    /\ Invoke("removeBreakpoints", <<>>, removeBreakpointsBody)

getBreakpoint ==
    /\ "getBreakpoint" \in program
    /\ \E id \in Ids :
          Invoke("getBreakpoint", <<id>>, getBreakpointBody(id))

removeBreakpoint ==
    /\ "removeBreakpoint" \in program
    /\ \E id \in Ids :
          Invoke("removeBreakpoint", <<id>>, removeBreakpointBody(id))

getScriptThreads ==
    /\ "getScriptThreads" \in program
    /\ Invoke("getScriptThreads", <<>>, getScriptThreadsBody)

resetScriptThreads ==
    /\ "resetScriptThreads" \in program
    /\ Invoke("resetScriptThreads", <<>>, resetScriptThreadsBody)

getScriptThread ==
    /\ "getScriptThread" \in program
    /\ \E id \in Ids :
          Invoke("getScriptThread", <<id>>, getScriptThreadBody(id))

evaluateExpression ==
    /\ "evaluateExpression" \in program
    /\ \E f \in Frames, expr \in Expressions :
          Invoke("evaluateExpression", <<f[1], f[2], expr>>,
              evaluateExpressionBody(f[1], f[2], expr))

getObjectMembers ==
    /\ "getObjectMembers" \in program
    /\ \E f \in Frames, objectPath \in ObjectPaths, pg \in Pagings :
          Invoke("getObjectMembers", <<f[1], f[2], objectPath, pg[1],
              pg[2]>>, getObjectMembersBody(f[1], f[2], objectPath, pg[1],
                  pg[2]))

getVariables ==
    /\ "getVariables" \in program
    /\ \E f \in Frames, pg \in Pagings :
          Invoke("getVariables", <<f[1], f[2], pg[1], pg[2]>>,
              getVariablesBody(f[1], f[2], pg[1], pg[2]))

stepInto ==
    /\ "stepInto" \in program
    /\ \E threadId \in Ids :
          Invoke("stepInto", <<threadId>>, stepIntoBody(threadId))

stepOut ==
    /\ "stepOut" \in program
    /\ \E threadId \in Ids :
          Invoke("stepOut", <<threadId>>, stepOutBody(threadId))

stepOver ==
    /\ "stepOver" \in program
    /\ \E threadId \in Ids :
          Invoke("stepOver", <<threadId>>, stepOverBody(threadId))

stepResume ==
    /\ "stepResume" \in program
    /\ \E threadId \in Ids :
          Invoke("stepResume", <<threadId>>, stepResumeBody(threadId))

stepStop ==
    /\ "stepStop" \in program
    /\ \E threadId \in Ids :
          Invoke("stepStop", <<threadId>>, stepStopBody(threadId))

(***************************************************************************)
(* The transport answers a request in flight.  The promise of the request  *)
(* runs the interceptor, then the method's own .then when it has one, and  *)
(* the result settles the promise the caller holds.                        *)
(***************************************************************************)
Chain(call, p) == IF call.then = "res.data" THEN thenData(p) ELSE p

\* The promises share one slot: an answer settles the oldest call in flight.
SettleOldest(i, p, source) ==
    LET o == CHOOSE j \in DOMAIN pending : \A k \in DOMAIN pending : j <= k
    IN  /\ delivered' = [call |-> o, op |-> pending[o].op,
                         settle |-> p.settle, value |-> p.value,
                         source |-> source]
        /\ settled' = [settled EXCEPT ![o] = @ + 1]
        /\ pending' = [j \in DOMAIN pending \ {o} |-> pending[j]]
        /\ UNCHANGED <<config, http, invoked, dispatched, program>>

Settle(i, p, source) ==
    /\ delivered' = [call |-> i, op |-> pending[i].op, settle |-> p.settle,
                     value |-> p.value, source |-> source]
    /\ settled' = [settled EXCEPT ![i] = @ + 1]
    /\ pending' = [j \in DOMAIN pending \ {i} |-> pending[j]]
    /\ UNCHANGED <<config, http, invoked, dispatched, program>>

responseFulfilled ==
    \E i \in DOMAIN pending, res \in Responses :
        LET response == AxiosResponse(res, pending[i].request)
        IN  Settle(i, Chain(pending[i], interceptorFulfilled(response)),
                   response)

responseRejected ==
    \E i \in DOMAIN pending, error \in AxiosErrors :
        Settle(i, Chain(pending[i], interceptorRejected(error)), error)

Next ==
    \/ createClient
    \/ deleteClient
    \/ getBreakpoints
    \/ createBreakpoints
    \/ removeBreakpoints
    \/ getBreakpoint
    \/ removeBreakpoint
    \/ getScriptThreads
    \/ resetScriptThreads
    \/ getScriptThread
    \/ evaluateExpression
    \/ getObjectMembers
    \/ getVariables
    \/ stepInto
    \/ stepOut
    \/ stepOver
    \/ stepResume
    \/ stepStop
    \/ responseFulfilled
    \/ responseRejected

Spec == Init /\ [][Next]_vars

(***************************************************************************)
(* Vocabulary of the properties.                                           *)
(***************************************************************************)
KnownDiscriminators ==
    { "NotAuthorizedException", "ClientIdRequiredException",
      "DebuggerDisabledException", "InvalidScriptPathException",
      "InvalidScriptFileException", "BreakpointNotFoundException",
      "ScriptThreadNotFoundException", "InvalidFrameIndexException" }

\* The last settlement answered a failed / a successful exchange.
Failed == delivered.settle # "none" /\ delivered.source.class = "AxiosError"
Succeeded ==
    delivered.settle # "none" /\ delivered.source.class = "AxiosResponse"

\* The failure body is an object with an object `fault`.
HasFault(error) ==
    /\ "response" \in DOMAIN error.props
    /\ error.props.response.props.data.t = "object"
    /\ "fault" \in DOMAIN error.props.response.props.data.props
    /\ error.props.response.props.data.props.fault.t = "object"

TheFault(error) == error.props.response.props.data.props.fault.props

\* fault.type is one of the eight known names.
HasKnownType(error) ==
    /\ HasFault(error)
    /\ "type" \in DOMAIN TheFault(error)
    /\ TheFault(error).type.t = "string"
    /\ TheFault(error).type.v \in KnownDiscriminators

\* fault.type is absent, or a string that is not one of the eight names.
HasNoKnownType(error) ==
    \/ ~HasFault(error)
    \/ "type" \notin DOMAIN TheFault(error)
    \/ /\ TheFault(error).type.t = "string"
       /\ TheFault(error).type.v \notin KnownDiscriminators

\* C1: a failed call whose body carries {fault:{type, message}} with one of
\* the eight known discriminators and a message string is rejected with the
\* condition of that very name, carrying exactly that message, whatever the
\* operation.
C1_KnownFaultIsTyped ==
    ( /\ Failed
      /\ HasKnownType(delivered.source)
      /\ "message" \in DOMAIN TheFault(delivered.source)
      /\ TheFault(delivered.source).message.t = "string" )
    => /\ delivered.settle = "rejected"
       /\ delivered.value.class = TheFault(delivered.source).type.v
       /\ delivered.value.props =
             [message |-> TheFault(delivered.source).message]

C1_Witness ==
    /\ Failed
    /\ delivered.op = "getBreakpoint"
    /\ delivered.value =
          Instance("BreakpointNotFoundException",
                   [message |-> Str("Could not find Breakpoint for identifier 1")])

\* C2: a failed call whose fault.type is absent or is a string other than
\* the eight known names is rejected with the original transport error
\* itself.
C2_UnknownFaultPassesThrough ==
    (Failed /\ HasNoKnownType(delivered.source))
    => /\ delivered.settle = "rejected"
       /\ delivered.value = delivered.source

\* The operations whose method body has no .then(res => res.data).
EnvelopeOperations ==
    { "createClient", "deleteClient", "removeBreakpoints", "removeBreakpoint",
      "resetScriptThreads" }

\* C3 as stated: on success every operation resolves to exactly the
\* response body, never to the transport envelope.
C3_EveryOperationUnwraps ==
    Succeeded
    => /\ delivered.settle = "resolved"
       /\ delivered.value = delivered.source.props.data

\* C3 as amended: on success the thirteen operations that chain
\* .then(res => res.data) resolve to exactly the response body, and
\* createClient, deleteClient, removeBreakpoints, removeBreakpoint and
\* resetScriptThreads resolve to the transport response itself.
C3_PayloadOperationsUnwrap ==
    Succeeded
    => /\ delivered.settle = "resolved"
       /\ delivered.value =
             IF delivered.op \in EnvelopeOperations
             THEN delivered.source
             ELSE delivered.source.props.data

C3_Witness ==
    /\ Succeeded
    /\ delivered.op = "getScriptThread"
    /\ delivered.source.props.status = Num(200)
    /\ delivered.value = thread

\* The calls of one operation that are in flight.
InFlight(op) == { i \in DOMAIN pending : pending[i].op = op }

\* C4: getObjectMembers without objectPath sends a query with the keys start
\* and count only; getObjectMembers(.., 'basket.productLineItems', 10, 100)
\* sends exactly start=10, count=100, object_path='basket.productLineItems'.
C4_ObjectPathQuery ==
    \A i \in InFlight("getObjectMembers") :
        LET a == pending[i].args
            q == pending[i].request.params
        IN  /\ a[3] = Undefined => DOMAIN q = {"start", "count"}
            /\ ( /\ a[3] = Some("basket.productLineItems")
                 /\ a[4] = Some(10)
                 /\ a[5] = Some(100) )
               => q = [start |-> 10, count |-> 100,
                       object_path |-> "basket.productLineItems"]

C4_Witness ==
    /\ \E i \in InFlight("getObjectMembers") : pending[i].args[3] = Undefined
    /\ \E i \in InFlight("getObjectMembers") :
          /\ pending[i].args[3] = Some("basket.productLineItems")
          /\ pending[i].args[4] = Some(10)
          /\ pending[i].args[5] = Some(100)

\* C5: the query of getObjectMembers has the key object_path exactly when
\* the caller provided objectPath (the empty string included), and then with
\* the caller's value.
C5_AbsentDiffersFromEmpty ==
    \A i \in InFlight("getObjectMembers") :
        LET a == pending[i].args
            q == pending[i].request.params
        IN  /\ a[3] = Undefined => "object_path" \notin DOMAIN q
            /\ a[3] # Undefined =>
                  /\ "object_path" \in DOMAIN q
                  /\ q.object_path = a[3][1]

\* C6: getObjectMembers and getVariables send start=0 and count=200 when
\* the caller gives no start or count, and the caller's values otherwise.
C6_PagingDefaults ==
    \A i \in InFlight("getObjectMembers") \cup InFlight("getVariables") :
        LET a == pending[i].args
            q == pending[i].request.params
            start == IF pending[i].op = "getObjectMembers" THEN a[4] ELSE a[3]
            count == IF pending[i].op = "getObjectMembers" THEN a[5] ELSE a[4]
        IN  /\ q.start = IF start = Undefined THEN 0 ELSE start[1]
            /\ q.count = IF count = Undefined THEN 200 ELSE count[1]

C6_Witness ==
    /\ \E i \in InFlight("getObjectMembers") :
          /\ pending[i].args[3] = Undefined
          /\ pending[i].args[4] = Undefined
          /\ pending[i].args[5] = Undefined
          /\ pending[i].request.params = [start |-> 0, count |-> 200]
    /\ \E i \in InFlight("getObjectMembers") :
          /\ pending[i].args[3] = Undefined
          /\ pending[i].args[4] = Undefined
          /\ pending[i].args[5] = Some(0)
          /\ pending[i].request.params = [start |-> 0, count |-> 0]

\* The decimal text of the identifiers and frame indexes the callers use.
DecimalText == (0 :> "0") @@ (1 :> "1") @@ (3 :> "3") @@ (12 :> "12")

StepAction ==
    [stepInto |-> "into", stepOut |-> "out", stepOver |-> "over",
     stepResume |-> "resume", stepStop |-> "stop"]

\* C7: each step method dispatches exactly one POST /threads/{id}/{action}
\* with its own action and, on success, resolves to the body of the
\* response unchanged.
C7_StepOperations ==
    /\ \A i \in DOMAIN pending :
          pending[i].op \in DOMAIN StepAction
          => /\ dispatched[i] = 1
             /\ pending[i].request =
                   [method |-> "post",
                    url |-> "/threads/" \o DecimalText[pending[i].args[1]]
                              \o "/" \o StepAction[pending[i].op]]
    /\ (Succeeded /\ delivered.op \in DOMAIN StepAction)
       => /\ delivered.settle = "resolved"
          /\ delivered.value = delivered.source.props.data

C7_Witness ==
    /\ Succeeded
    /\ delivered.op = "stepResume"
    /\ delivered.source.props.config =
          [method |-> "post", url |-> "/threads/12/resume"]
    /\ delivered.value = thread
    /\ \E i \in InFlight("stepOut") : pending[i].args = <<1>>

\* The request of the operation table for a non-step operation.
TableRequest(op, a) ==
    CASE op = "createClient" -> [method |-> "post", url |-> "/client"]
      [] op = "deleteClient" -> [method |-> "delete", url |-> "/client"]
      [] op = "getBreakpoints" -> [method |-> "get", url |-> "/breakpoints"]
      [] op = "createBreakpoints" ->
            [method |-> "post", url |-> "/breakpoints", data |-> a[1]]
      [] op = "removeBreakpoints" ->
            [method |-> "delete", url |-> "/breakpoints"]
      [] op = "getBreakpoint" ->
            [method |-> "get", url |-> "/breakpoints/" \o DecimalText[a[1]]]
      [] op = "removeBreakpoint" ->
            [method |-> "delete", url |-> "/breakpoints/" \o DecimalText[a[1]]]
      [] op = "getScriptThreads" -> [method |-> "get", url |-> "/threads"]
      [] op = "resetScriptThreads" ->
            [method |-> "post", url |-> "/threads/reset"]
      [] op = "getScriptThread" ->
            [method |-> "get", url |-> "/threads/" \o DecimalText[a[1]]]
      [] op = "evaluateExpression" ->
            [method |-> "get",
             url |-> "/threads/" \o DecimalText[a[1]] \o "/frames/"
                       \o DecimalText[a[2]] \o "/eval",
             params |-> [expr |-> a[3]]]

NonStepOperations ==
    { "createClient", "deleteClient", "getBreakpoints", "createBreakpoints",
      "removeBreakpoints", "getBreakpoint", "removeBreakpoint",
      "getScriptThreads", "resetScriptThreads", "getScriptThread",
      "evaluateExpression" }

\* C8: every non-step operation of the table issues the method, path, body
\* and query of its row, for every argument value.
C8_OperationTable ==
    \A i \in DOMAIN pending :
        pending[i].op \in NonStepOperations
        => pending[i].request = TableRequest(pending[i].op, pending[i].args)

C8_Witness ==
    /\ \E i \in InFlight("evaluateExpression") :
          pending[i].request =
             [method |-> "get", url |-> "/threads/12/frames/3/eval",
              params |-> [expr |-> "calculate()"]]
    /\ \E i \in InFlight("getScriptThread") :
          pending[i].request = [method |-> "get", url |-> "/threads/1"]

\* C9: after any sequence of operations the connection configuration of the
\* client is the one derived from the Config given to the constructor.
C9_ConfigurationFixed ==
    http = [ baseURL |-> "https://" \o config.hostname
                           \o "/s/-/dw/debugger/v2_0",
             auth |-> [username |-> config.username,
                       password |-> config.password],
             headers |-> ("x-dw-client-id" :> config.clientId) ]

C9_Witness ==
    /\ config.hostname = "dev01.example.net"
    /\ http.baseURL = "https://dev01.example.net/s/-/dw/debugger/v2_0"
    /\ invoked >= 2
    /\ settled[1] = 1
    /\ Failed
    /\ delivered.call = 2

\* C10: every invocation dispatches exactly one request and settles exactly
\* once; a failed request is delivered as a typed fault or as the original
\* transport error, and a successful one never ends in a failure.
C10_SettledExactlyOnce ==
    /\ \A i \in CallIds :
          /\ dispatched[i] = IF i <= invoked THEN 1 ELSE 0
          /\ settled[i] = IF i <= invoked /\ i \notin DOMAIN pending
                          THEN 1 ELSE 0
    /\ Failed
       => /\ delivered.settle = "rejected"
          /\ \/ delivered.value = delivered.source
             \/ delivered.value.class \in KnownDiscriminators
    /\ Succeeded => delivered.settle = "resolved"

\* The settlement d is the outcome of the exchange of the call `call` alone:
\* a success carries the response to the call's own request and resolves to
\* that response or to its body; a failure rejects with the error of the
\* exchange or with a value made of nothing but the fault of that error.
OwnOutcome(call, d) ==
    \/ /\ d.source.class = "AxiosResponse"
       /\ d.source.props.config = call.request
       /\ d.settle = "resolved"
       /\ \/ d.value = d.source
          \/ d.value = d.source.props.data
    \/ /\ d.source.class = "AxiosError"
       /\ d.settle = "rejected"
       /\ \/ d.value = d.source
          \/ /\ HasFault(d.source)
             /\ \A k \in DOMAIN d.value.props :
                   \/ d.value.class = "TypeError"
                   \/ /\ "message" \in DOMAIN TheFault(d.source)
                      /\ d.value.props[k] = TheFault(d.source).message

\* C11: with several calls in flight and their answers arriving in any
\* order, a settlement is delivered to the call the answer belongs to and is
\* the outcome of that call's own exchange; every other call in flight stays
\* exactly as it was, and a call leaves the flight only by being settled.
C11_CallsDoNotInterfere ==
    [][ /\ \A i \in DOMAIN pending :
              i \notin DOMAIN pending'
              => /\ settled'[i] = settled[i] + 1
                 /\ delivered'.call = i
                 /\ delivered'.op = pending[i].op
                 /\ OwnOutcome(pending[i], delivered')
                 /\ \A j \in DOMAIN pending \ {i} :
                       /\ j \in DOMAIN pending'
                       /\ pending'[j] = pending[j]
                       /\ settled'[j] = settled[j]
        /\ (\A i \in DOMAIN pending : i \in DOMAIN pending')
           => /\ delivered' = delivered
              /\ settled' = settled
              /\ \A i \in DOMAIN pending : pending'[i] = pending[i]
      ]_vars

\* The answer to the second call arrived while the first, a call of another
\* operation, is still in flight.
C11_Witness ==
    /\ settled[2] = 1
    /\ delivered.call = 2
    /\ 1 \in DOMAIN pending
    /\ pending[1].op # delivered.op
    /\ settled[1] = 0

\* The query of getObjectMembers and getVariables as a function of the
\* arguments alone.
PagingQuery(start, count) ==
    [start |-> IF start = Undefined THEN 0 ELSE start[1],
     count |-> IF count = Undefined THEN 200 ELSE count[1]]

\* The request of an operation as a function of its arguments alone.
RequestOf(op, a) ==
    CASE op \in NonStepOperations -> TableRequest(op, a)
      [] op \in DOMAIN StepAction ->
            [method |-> "post",
             url |-> "/threads/" \o DecimalText[a[1]] \o "/" \o StepAction[op]]
      [] op = "getVariables" ->
            [method |-> "get",
             url |-> "/threads/" \o DecimalText[a[1]] \o "/frames/"
                       \o DecimalText[a[2]] \o "/variables",
             params |-> PagingQuery(a[3], a[4])]
      [] op = "getObjectMembers" ->
            [method |-> "get",
             url |-> "/threads/" \o DecimalText[a[1]] \o "/frames/"
                       \o DecimalText[a[2]] \o "/members",
             params |-> IF a[3] \in {Undefined, Some("")}
                        THEN PagingQuery(a[4], a[5])
                        ELSE [start |-> PagingQuery(a[4], a[5]).start,
                              count |-> PagingQuery(a[4], a[5]).count,
                              object_path |-> a[3][1]]]

\* Every method the program uses can be invoked now.
EveryOperationDispatches ==
    /\ "createClient" \in program => ENABLED createClient
    /\ "deleteClient" \in program => ENABLED deleteClient
    /\ "getBreakpoints" \in program => ENABLED getBreakpoints
    /\ "createBreakpoints" \in program => ENABLED createBreakpoints
    /\ "removeBreakpoints" \in program => ENABLED removeBreakpoints
    /\ "getBreakpoint" \in program => ENABLED getBreakpoint
    /\ "removeBreakpoint" \in program => ENABLED removeBreakpoint
    /\ "getScriptThreads" \in program => ENABLED getScriptThreads
    /\ "resetScriptThreads" \in program => ENABLED resetScriptThreads
    /\ "getScriptThread" \in program => ENABLED getScriptThread
    /\ "evaluateExpression" \in program => ENABLED evaluateExpression
    /\ "getObjectMembers" \in program => ENABLED getObjectMembers
    /\ "getVariables" \in program => ENABLED getVariables
    /\ "stepInto" \in program => ENABLED stepInto
    /\ "stepOut" \in program => ENABLED stepOut
    /\ "stepOver" \in program => ENABLED stepOver
    /\ "stepResume" \in program => ENABLED stepResume
    /\ "stepStop" \in program => ENABLED stepStop

\* The part of C12 about dispatch: whatever calls were made before and
\* however they ended, every method can be invoked, each call in flight has
\* dispatched one request, and that request is the one its operation and
\* arguments determine.
DispatchIgnoresHistory ==
    /\ invoked < MaxCalls => EveryOperationDispatches
    /\ \A i \in DOMAIN pending :
          /\ dispatched[i] = 1
          /\ pending[i].request = RequestOf(pending[i].op, pending[i].args)

\* C12: no validation and no sequencing precede dispatch: after any history
\* of calls every operation dispatches its request, which depends only on
\* the operation's arguments, and the only failures a caller observes are
\* typed faults and the transport errors of the exchange.
C12_NoValidationNoSequencing ==
    /\ DispatchIgnoresHistory
    /\ Failed
       => \/ delivered.value = delivered.source
          \/ delivered.value.class \in KnownDiscriminators

====
